---- MODULE Spec2Model ----
(***************************************************************************)
(* Model of src/main.py: the Perplexity CLI (PerplexityClient.ask /        *)
(* chat_completion and main).  One run of main is a straight-line process  *)
(* whose position is pc; the remote service's answer and the file system's *)
(* behaviour are inputs fixed at Init.                                     *)
(***************************************************************************)
EXTENDS Integers, Sequences, FiniteSets, TLC

VARIABLES args, net, fs, pc, kwargs, requests, response, output, stdout, stderr,
          file, saveAttempts, exitCode, fault

vars == <<args, net, fs, pc, kwargs, requests, response, output, stdout, stderr,
          file, saveAttempts, exitCode, fault>>

(***************************************************************************)
(* Python / JSON values.  Every value is a record of the same shape so     *)
(* that values of different Python types can be compared:                  *)
(*   t : the type tag, n : the number (bool as 0/1, float in tenths),      *)
(*   s : the text, l : the list items, o : the dict entries in insertion   *)
(*   order, each [k |-> key text, v |-> value].                            *)
(***************************************************************************)
PyNone == [t |-> "none", n |-> 0, s |-> "", l |-> <<>>, o |-> <<>>]
PyBool(b) == [t |-> "bool", n |-> IF b THEN 1 ELSE 0, s |-> "", l |-> <<>>, o |-> <<>>]
PyInt(i) == [t |-> "int", n |-> i, s |-> "", l |-> <<>>, o |-> <<>>]
PyFloat(tenths) == [t |-> "float", n |-> tenths, s |-> "", l |-> <<>>, o |-> <<>>]
PyStr(str) == [t |-> "str", n |-> 0, s |-> str, l |-> <<>>, o |-> <<>>]
PyList(items) == [t |-> "list", n |-> 0, s |-> "", l |-> items, o |-> <<>>]
PyDict(entries) == [t |-> "dict", n |-> 0, s |-> "", l |-> <<>>, o |-> entries]
KV(key, val) == [k |-> key, v |-> val]

\* bool(x): Python truthiness.
Truthy(x) ==
    CASE x.t = "none" -> FALSE
      [] x.t \in {"bool", "int", "float"} -> x.n # 0
      [] x.t = "str" -> x.s # ""
      [] x.t = "list" -> x.l # <<>>
      [] x.t = "dict" -> x.o # <<>>

\* The result of an expression that may raise.
Ok(val) == [ok |-> TRUE, v |-> val, exc |-> "none", detail |-> ""]
Raise(name, why) == [ok |-> FALSE, v |-> PyNone, exc |-> name, detail |-> why]

\* key in d, for a dict d and a text key.
HasKey(d, key) == \E i \in 1..Len(d.o) : d.o[i].k = key

\* d[key] for a dict that has the key (the last entry wins).
Lookup(d, key) ==
    LET i == CHOOSE j \in 1..Len(d.o) :
                 d.o[j].k = key /\ \A m \in (j+1)..Len(d.o) : d.o[m].k # key
    IN d.o[i].v

\* d[key] = val: replaces the value in place or appends a new entry.
DictSet(d, key, val) ==
    IF HasKey(d, key)
    THEN PyDict([i \in 1..Len(d.o) |-> IF d.o[i].k = key THEN KV(key, val) ELSE d.o[i]])
    ELSE PyDict(Append(d.o, KV(key, val)))

\* d.get(key): the value, or None.
DictGet(d, key) == IF HasKey(d, key) THEN Lookup(d, key) ELSE PyNone

\* The characters of a text, for the texts that are indexed or iterated.
Chars(str) ==
    CASE str = "" -> <<>>
      [] str = "ab" -> <<"a", "b">>
      [] OTHER -> <<str>>

\* sub in str, for the texts used as whole response bodies.
StrContains(str, sub) == str = sub \/ <<str, sub>> \in {<<"fatal error", "error">>}

\* x[key] with a text key.
GetKey(x, key) ==
    CASE x.t = "dict" -> IF HasKey(x, key) THEN Ok(Lookup(x, key)) ELSE Raise("KeyError", "'" \o key \o "'")
      [] OTHER -> Raise("TypeError", "indices must be integers")

\* x[0].
GetFirst(x) ==
    CASE x.t = "list" ->
           IF x.l # <<>> THEN Ok(x.l[1]) ELSE Raise("IndexError", "list index out of range")
      [] x.t = "str" ->
           IF x.s # "" THEN Ok(PyStr(Chars(x.s)[1]))
           ELSE Raise("IndexError", "string index out of range")
      [] x.t = "dict" -> Raise("KeyError", "0")
      [] OTHER -> Raise("TypeError", "object is not subscriptable")

\* "error" in x.
PyIn(key, x) ==
    CASE x.t = "dict" -> Ok(PyBool(HasKey(x, key)))
      [] x.t = "list" -> Ok(PyBool(\E i \in 1..Len(x.l) : x.l[i] = PyStr(key)))
      [] x.t = "str" -> Ok(PyBool(StrContains(x.s, key)))
      [] OTHER -> Raise("TypeError", "argument is not iterable")

\* iter(x): the items a for loop visits.
PyIter(x) ==
    CASE x.t = "list" -> Ok(x.l)
      [] x.t = "dict" -> Ok([i \in 1..Len(x.o) |-> PyStr(x.o[i].k)])
      [] x.t = "str" -> Ok([i \in 1..Len(Chars(x.s)) |-> PyStr(Chars(x.s)[i])])
      [] OTHER -> Raise("TypeError", "object is not iterable")

\* sep.join(parts) for a sequence of texts.
RECURSIVE JoinStr(_, _)
JoinStr(sep, parts) ==
    IF parts = <<>> THEN ""
    ELSE IF Len(parts) = 1 THEN parts[1]
    ELSE parts[1] \o sep \o JoinStr(sep, Tail(parts))

\* A float held in tenths, as Python prints it.
FloatText(tenths) == ToString(tenths \div 10) \o "." \o ToString(tenths % 10)

\* repr(x) and str(x), as an f-string formats a value.
RECURSIVE PyRepr(_)
PyRepr(x) ==
    CASE x.t = "none" -> "None"
      [] x.t = "bool" -> IF x.n # 0 THEN "True" ELSE "False"
      [] x.t = "int" -> ToString(x.n)
      [] x.t = "float" -> FloatText(x.n)
      [] x.t = "str" -> "'" \o x.s \o "'"
      [] x.t = "list" -> "[" \o JoinStr(", ", [i \in 1..Len(x.l) |-> PyRepr(x.l[i])]) \o "]"
      [] x.t = "dict" ->
           "{" \o JoinStr(", ", [i \in 1..Len(x.o) |->
                                   "'" \o x.o[i].k \o "': " \o PyRepr(x.o[i].v)]) \o "}"

PyFormat(x) == IF x.t = "str" THEN x.s ELSE PyRepr(x)

\* json.dumps(x, indent=2), for texts that need no escaping.
Pad(level) == JoinStr("", [i \in 1..level |-> "  "])

RECURSIVE Dumps(_, _)
Dumps(x, level) ==
    CASE x.t = "none" -> "null"
      [] x.t = "bool" -> IF x.n # 0 THEN "true" ELSE "false"
      [] x.t = "int" -> ToString(x.n)
      [] x.t = "float" -> FloatText(x.n)
      [] x.t = "str" -> "\"" \o x.s \o "\""
      [] x.t = "list" ->
           IF x.l = <<>> THEN "[]"
           ELSE "[\n"
                \o JoinStr(",\n", [i \in 1..Len(x.l) |->
                                     Pad(level + 1) \o Dumps(x.l[i], level + 1)])
                \o "\n" \o Pad(level) \o "]"
      [] x.t = "dict" ->
           IF x.o = <<>> THEN "{}"
           ELSE "{\n"
                \o JoinStr(",\n", [i \in 1..Len(x.o) |->
                                     Pad(level + 1) \o "\"" \o x.o[i].k \o "\": "
                                     \o Dumps(x.o[i].v, level + 1)])
                \o "\n" \o Pad(level) \o "}"

\* json.dumps(x, indent=None).
RECURSIVE DumpsCompact(_)
DumpsCompact(x) ==
    CASE x.t = "list" ->
           "[" \o JoinStr(", ", [i \in 1..Len(x.l) |-> DumpsCompact(x.l[i])]) \o "]"
      [] x.t = "dict" ->
           "{" \o JoinStr(", ", [i \in 1..Len(x.o) |->
                                   "\"" \o x.o[i].k \o "\": " \o DumpsCompact(x.o[i].v)]) \o "}"
      [] OTHER -> Dumps(x, 0)

JsonDumps(x, pretty) == IF pretty THEN Dumps(x, 0) ELSE DumpsCompact(x)

(***************************************************************************)
(* PerplexityClient.chat_completion and ask.                               *)
(***************************************************************************)
\* The default of each keyword parameter of chat_completion.
Default(name) ==
    CASE name = "model" -> PyStr("sonar")
      [] name = "max_tokens" -> PyNone
      [] name = "temperature" -> PyFloat(2)
      [] name = "top_p" -> PyFloat(9)
      [] name = "return_citations" -> PyBool(TRUE)
      [] name = "search_domain_filter" -> PyNone
      [] name = "return_images" -> PyBool(FALSE)
      [] name = "return_related_questions" -> PyBool(FALSE)
      [] name = "search_recency_filter" -> PyNone
      [] name = "top_k" -> PyInt(0)
      [] name = "stream" -> PyBool(FALSE)
      [] name = "presence_penalty" -> PyInt(0)
      [] name = "frequency_penalty" -> PyInt(1)

\* The value a parameter is bound to in a call with keyword arguments kw.
Param(kw, name) == IF HasKey(kw, name) THEN Lookup(kw, name) ELSE Default(name)

\* {k: v for k, v in payload.items() if v}: the filter a truthiness test gives.
DropFalsy(d) == PyDict(SelectSeq(d.o, LAMBDA e : Truthy(e.v)))

\* {k: v for k, v in payload.items() if v is not None}
DropNone(d) == PyDict(SelectSeq(d.o, LAMBDA e : e.v # PyNone))

\* The payload chat_completion posts.
BuildPayload(messages, kw) ==
    LET p0 == PyDict(<<KV("model", Param(kw, "model")),
                       KV("messages", messages),
                       KV("max_tokens", Param(kw, "max_tokens")),
                       KV("temperature", Param(kw, "temperature")),
                       KV("top_p", Param(kw, "top_p")),
                       KV("return_citations", Param(kw, "return_citations")),
                       KV("return_images", Param(kw, "return_images")),
                       KV("return_related_questions", Param(kw, "return_related_questions")),
                       KV("top_k", Param(kw, "top_k")),
                       KV("stream", Param(kw, "stream")),
                       KV("presence_penalty", Param(kw, "presence_penalty")),
                       KV("frequency_penalty", Param(kw, "frequency_penalty"))>>)
        sdf == Param(kw, "search_domain_filter")
        srf == Param(kw, "search_recency_filter")
        p1 == IF Truthy(sdf) THEN DictSet(p0, "search_domain_filter", sdf) ELSE p0
        p2 == IF Truthy(srf) THEN DictSet(p1, "search_recency_filter", srf) ELSE p1
    IN DropNone(p2)

\* messages = [{"role": "user", "content": question}]
Messages(question) ==
    PyList(<<PyDict(<<KV("role", PyStr("user")), KV("content", question)>>)>>)

\* What requests.post / raise_for_status / response.json() do with the
\* remote's answer n: the decoded body, or the exception raised.  e.response
\* is the Response for an HTTP error status and None otherwise.  Whether the
\* JSON decoding error of a 2xx reply is a RequestException depends on the
\* installed requests release (n.jsonErrorIsRequestException).
Post(n) ==
    CASE n.kind = "ok" ->
           [raised |-> FALSE, caught |-> FALSE, body |-> n.body,
            msg |-> "", hasResponse |-> FALSE, status |-> 0, text |-> ""]
      [] n.kind = "http_error" ->
           [raised |-> TRUE, caught |-> TRUE, body |-> PyNone,
            msg |-> ToString(n.status) \o " Error for url", hasResponse |-> TRUE,
            status |-> n.status, text |-> n.text]
      [] n.kind = "conn_error" ->
           [raised |-> TRUE, caught |-> TRUE, body |-> PyNone,
            msg |-> "Connection refused", hasResponse |-> FALSE, status |-> 0, text |-> ""]
      [] n.kind = "timeout" ->
           [raised |-> TRUE, caught |-> TRUE, body |-> PyNone,
            msg |-> "Read timed out", hasResponse |-> FALSE, status |-> 0, text |-> ""]
      [] n.kind = "bad_json" ->
           [raised |-> TRUE, caught |-> n.jsonErrorIsRequestException, body |-> PyNone,
            msg |-> "Expecting value", hasResponse |-> FALSE, status |-> 0, text |-> ""]

\* The except branch with the body text stored unconditionally.
ErrorDetailAlwaysText(e) ==
    PyDict(<<KV("error", PyStr(e.msg)),
             KV("status_code", IF e.hasResponse THEN PyInt(e.status) ELSE PyNone),
             KV("response_text", PyStr(e.text))>>)

\* The except branch: the dict returned for a caught exception e.
ErrorDetail(e) ==
    LET d0 == PyDict(<<KV("error", PyStr(e.msg)),
                       KV("status_code",
                          IF e.hasResponse THEN PyInt(e.status) ELSE PyNone)>>)
    IN IF e.hasResponse THEN DictSet(d0, "response_text", PyStr(e.text)) ELSE d0

\* chat_completion's try/except around the POST: the value returned, or the
\* exception that escapes.
ChatCompletion(n) ==
    LET r == Post(n)
    IN IF ~r.raised THEN Ok(r.body)
       ELSE IF r.caught THEN Ok(ErrorDetail(r))
       ELSE Raise("ValueError", r.msg)

(***************************************************************************)
(* main.                                                                   *)
(***************************************************************************)
\* The keyword arguments main passes to client.ask.
Kwargs(a) ==
    LET k0 == PyDict(<<KV("model", a.model),
                       KV("temperature", a.temperature),
                       KV("return_citations", PyBool(a.citations /\ ~a.no_citations)),
                       KV("return_images", PyBool(a.images)),
                       KV("return_related_questions", PyBool(a.related_questions))>>)
        k1 == IF Truthy(a.max_tokens) THEN DictSet(k0, "max_tokens", a.max_tokens) ELSE k0
        k2 == IF Truthy(a.domain_filter)
              THEN DictSet(k1, "search_domain_filter", a.domain_filter) ELSE k1
        k3 == IF Truthy(a.recency)
              THEN DictSet(k2, "search_recency_filter", a.recency) ELSE k2
    IN k3

\* The text that starts a related-question line (the source's bullet
\* characters, written in ASCII).
Bullet == "(bullet)"

\* f"{i}. {citation}" for each citation, numbered from 1.
CitationLines(items) == [i \in 1..Len(items) |-> ToString(i) \o ". " \o PyFormat(items[i])]

\* The bullet line of each related question.
QuestionLines(items) == [i \in 1..Len(items) |-> Bullet \o " " \o PyFormat(items[i])]

\* response["choices"][0]["message"]["content"]
Content(resp) ==
    LET r1 == GetKey(resp, "choices")
        r2 == IF r1.ok THEN GetFirst(r1.v) ELSE r1
        r3 == IF r2.ok THEN GetKey(r2.v, "message") ELSE r2
        r4 == IF r3.ok THEN GetKey(r3.v, "content") ELSE r3
    IN r4

\* The "Citations:" part of output_parts.
CitationsPart(resp, a) ==
    IF a.citations /\ Truthy(DictGet(resp, "citations"))
    THEN LET it == PyIter(Lookup(resp, "citations"))
         IN IF it.ok THEN [ok |-> TRUE, exc |-> "none",
                           lines |-> <<"\nCitations:">> \o CitationLines(it.v)]
            ELSE [ok |-> FALSE, exc |-> it.exc, lines |-> <<>>]
    ELSE [ok |-> TRUE, exc |-> "none", lines |-> <<>>]

\* The "Related Questions:" part of output_parts.
RelatedPart(resp, a) ==
    IF a.related_questions /\ Truthy(DictGet(resp, "related_questions"))
    THEN LET it == PyIter(Lookup(resp, "related_questions"))
         IN IF it.ok THEN [ok |-> TRUE, exc |-> "none",
                           lines |-> <<"\nRelated Questions:">> \o QuestionLines(it.v)]
            ELSE [ok |-> FALSE, exc |-> it.exc, lines |-> <<>>]
    ELSE [ok |-> TRUE, exc |-> "none", lines |-> <<>>]

\* The body of the try block of the text mode: the output text, or the
\* exception raised.
RenderText(resp, a) ==
    LET c == Content(resp)
    IN IF ~c.ok THEN [ok |-> FALSE, exc |-> c.exc, detail |-> c.detail, text |-> ""]
       ELSE LET cp == CitationsPart(resp, a)
                rp == RelatedPart(resp, a)
            IN IF ~cp.ok THEN [ok |-> FALSE, exc |-> cp.exc, detail |-> "", text |-> ""]
               ELSE IF ~rp.ok THEN [ok |-> FALSE, exc |-> rp.exc, detail |-> "", text |-> ""]
               ELSE IF c.v.t # "str"
                    THEN [ok |-> FALSE, exc |-> "TypeError", detail |-> "", text |-> ""]
               ELSE [ok |-> TRUE, exc |-> "none", detail |-> "",
                     text |-> JoinStr("\n", <<c.v.s>> \o cp.lines \o rp.lines)]

\* An exception nothing catches: the interpreter prints a traceback and the
\* process ends with status 1.
Crash(exc) ==
    /\ fault' = exc
    /\ exitCode' = 1
    /\ stderr' = Append(stderr, "Traceback (most recent call last): " \o exc)
    /\ pc' = "done"

\* sys.exit(1) after the handler has printed lines to the error stream.
ExitWith(lines) ==
    /\ stderr' = stderr \o lines
    /\ exitCode' = 1
    /\ pc' = "done"
    /\ fault' = fault

\* The API-key validation written as "if args.api_key is None".
ValidateKeyNoneOnly ==
    /\ pc = "validate"
    /\ IF args.api_key = PyNone
       THEN ExitWith(<<"Error: Perplexity API key is required!",
                       "Either set PERPLEXITY_API_KEY environment variable or use --api-key">>)
       ELSE /\ pc' = "ask"
            /\ UNCHANGED <<stderr, exitCode, fault>>
    /\ UNCHANGED <<args, net, fs, kwargs, requests, response, output, stdout, file,
                   saveAttempts>>

\* The API-key validation.
ValidateKey ==
    /\ pc = "validate"
    /\ IF ~Truthy(args.api_key)
       THEN ExitWith(<<"Error: Perplexity API key is required!",
                       "Either set PERPLEXITY_API_KEY environment variable or use --api-key">>)
       ELSE /\ pc' = "ask"
            /\ UNCHANGED <<stderr, exitCode, fault>>
    /\ UNCHANGED <<args, net, fs, kwargs, requests, response, output, stdout, file, saveAttempts>>

\* response = client.ask(args.question, **kwargs)
Ask ==
    /\ pc = "ask"
    /\ kwargs' = Kwargs(args)
    /\ requests' = Append(requests, BuildPayload(Messages(args.question), kwargs'))
    /\ LET r == ChatCompletion(net)
       IN IF r.ok
          THEN /\ response' = r.v
               /\ pc' = "check"
               /\ UNCHANGED <<stderr, exitCode, fault>>
          ELSE /\ Crash(r.exc)
               /\ UNCHANGED response
    /\ UNCHANGED <<args, net, fs, output, stdout, file, saveAttempts>>

\* client.ask(question, **kwargs) called as a library function with the
\* keyword arguments the caller chose.
AskDirect ==
    /\ pc = "call"
    /\ requests' = Append(requests, BuildPayload(Messages(args.question), kwargs))
    /\ LET r == ChatCompletion(net)
       IN IF r.ok
          THEN /\ response' = r.v
               /\ pc' = "returned"
               /\ UNCHANGED fault
          ELSE /\ fault' = r.exc
               /\ pc' = "raised"
               /\ UNCHANGED response
    /\ UNCHANGED <<args, net, fs, kwargs, output, stdout, stderr, file, saveAttempts,
                   exitCode>>

\* The lines the error branch prints, or the exception it raises.
ErrorReport(resp) ==
    LET e == GetKey(resp, "error")
    IN IF ~e.ok THEN [ok |-> FALSE, exc |-> e.exc, lines |-> <<>>]
       ELSE [ok |-> TRUE, exc |-> "none",
             lines |-> <<"Error: " \o PyFormat(e.v)>>
                       \o (IF HasKey(resp, "status_code")
                           THEN <<"Status Code: " \o PyFormat(Lookup(resp, "status_code"))>>
                           ELSE <<>>)
                       \o (IF HasKey(resp, "response_text")
                           THEN <<"Response: " \o PyFormat(Lookup(resp, "response_text"))>>
                           ELSE <<>>)]

\* if "error" in response: ... sys.exit(1)
CheckError ==
    /\ pc = "check"
    /\ LET t == PyIn("error", response)
       IN IF ~t.ok THEN Crash(t.exc)
          ELSE IF Truthy(t.v)
               THEN LET rep == ErrorReport(response)
                    IN IF rep.ok THEN ExitWith(rep.lines) ELSE Crash(rep.exc)
               ELSE /\ pc' = "render"
                    /\ UNCHANGED <<stderr, exitCode, fault>>
    /\ UNCHANGED <<args, net, fs, kwargs, requests, response, output, stdout, file, saveAttempts>>

\* "Prepare output": the JSON dump, or the text rendering inside its try.
Render ==
    /\ pc = "render"
    /\ IF args.json
       THEN /\ output' = JsonDumps(response, args.pretty)
            /\ pc' = "display"
            /\ UNCHANGED <<stderr, exitCode, fault>>
       ELSE LET r == RenderText(response, args)
            IN IF r.ok
               THEN /\ output' = r.text
                    /\ pc' = "display"
                    /\ UNCHANGED <<stderr, exitCode, fault>>
               ELSE IF r.exc \in {"KeyError", "IndexError"}
               THEN /\ ExitWith(<<"Error parsing response: " \o r.detail,
                                  JsonDumps(response, TRUE)>>)
                    /\ UNCHANGED output
               ELSE /\ Crash(r.exc)
                    /\ UNCHANGED output
    /\ UNCHANGED <<args, net, fs, kwargs, requests, response, stdout, file, saveAttempts>>

\* print(output)
Display ==
    /\ pc = "display"
    /\ stdout' = Append(stdout, output)
    /\ IF Truthy(args.save)
       THEN /\ pc' = "save"
            /\ UNCHANGED exitCode
       ELSE /\ pc' = "done"
            /\ exitCode' = 0
    /\ UNCHANGED <<args, net, fs, kwargs, requests, response, output, stderr, file, saveAttempts,
                   fault>>

\* The save step with a handler that ends the run with status 1.
SaveFailureExits ==
    /\ pc = "save"
    /\ saveAttempts' = saveAttempts + 1
    /\ CASE fs = "ok" ->
              /\ file' = Append(file, output)
              /\ stderr' = Append(stderr, "\nResponse saved to: " \o args.save.s)
              /\ exitCode' = 0
         [] fs = "open_fails" ->
              /\ file' = file
              /\ stderr' = Append(stderr, "Error saving file: Permission denied")
              /\ exitCode' = 1
         [] fs = "write_fails" ->
              /\ file' = Append(file, "")
              /\ stderr' = Append(stderr, "Error saving file: No space left on device")
              /\ exitCode' = 1
    /\ pc' = "done"
    /\ UNCHANGED <<args, net, fs, kwargs, requests, response, output, stdout, fault>>

\* The save step: open and write inside try, any Exception reported.
Save ==
    /\ pc = "save"
    /\ saveAttempts' = saveAttempts + 1
    /\ CASE fs = "ok" ->
              /\ file' = Append(file, output)
              /\ stderr' = Append(stderr, "\nResponse saved to: " \o args.save.s)
         [] fs = "open_fails" ->
              /\ file' = file
              /\ stderr' = Append(stderr, "Error saving file: Permission denied")
         [] fs = "write_fails" ->
              /\ file' = Append(file, "")
              /\ stderr' = Append(stderr, "Error saving file: No space left on device")
    /\ pc' = "done"
    /\ exitCode' = 0
    /\ UNCHANGED <<args, net, fs, kwargs, requests, response, output, stdout, fault>>

Next == ValidateKey \/ Ask \/ CheckError \/ Render \/ Display \/ Save

(***************************************************************************)
(* Inputs: the parsed command line, the remote's answer, the file system.  *)
(***************************************************************************)
MaxCitations == 2
MaxRelated == 1
MaxTokens == 2
MaxDomains == 2

SeqsUpTo(S, n) == UNION {[1..k -> S] : k \in 0..n}

TextList(texts) == PyList([i \in 1..Len(texts) |-> PyStr(texts[i])])

\* The namespace argparse returns.  --citations and --pretty are store_true
\* flags whose default is already True, so both are True in every run.
ArgsOf(q, key, mt, temp, nocit, img, rel, dom, rec, js, sv) ==
    [question |-> q, api_key |-> key, model |-> PyStr("sonar"),
     max_tokens |-> mt, temperature |-> temp, citations |-> TRUE, no_citations |-> nocit,
     images |-> img, related_questions |-> rel, domain_filter |-> dom, recency |-> rec,
     json |-> js, pretty |-> TRUE, save |-> sv]

ApiKeys == {PyNone, PyStr(""), PyStr("pplx-key")}
SaveTargets == {PyNone, PyStr("out.txt")}
FsOutcomes == {"ok", "open_fails", "write_fails"}

\* The request options of a run: the command-line defaults, every option
\* given with a zero or empty value, every option given.
OptionProfiles ==
    {[mt |-> PyNone, temp |-> PyFloat(2), img |-> FALSE, dom |-> PyNone, rec |-> PyNone],
     [mt |-> PyInt(0), temp |-> PyFloat(0), img |-> FALSE, dom |-> PyList(<<>>),
      rec |-> PyNone],
     [mt |-> PyInt(MaxTokens), temp |-> PyFloat(7), img |-> TRUE,
      dom |-> TextList(<<"b.org", "a.com">>), rec |-> PyStr("week")]}

MainArgs ==
    {ArgsOf(PyStr("what is tla"), key, o.mt, o.temp, nocit, o.img, rel, o.dom, o.rec, js, sv) :
        key \in ApiKeys, o \in OptionProfiles, nocit \in BOOLEAN, rel \in BOOLEAN,
        js \in BOOLEAN, sv \in SaveTargets}

\* Keyword arguments a caller of ask may pass: each option left out, passed
\* as None where the signature allows it, or passed with a value.
Opt(name, vals) == {<<>>} \cup {<<KV(name, val)>> : val \in vals}

KwargsConfigs ==
    {PyDict(mdl \o mt \o temp \o dom \o rec \o rc \o img \o fp) :
        mdl \in Opt("model", {PyStr("sonar-pro"), PyStr("")}),
        mt \in Opt("max_tokens", {PyNone} \cup {PyInt(i) : i \in 0..MaxTokens}),
        temp \in Opt("temperature", {PyFloat(0), PyFloat(7)}),
        dom \in Opt("search_domain_filter",
                    {PyNone} \cup {TextList(d) : d \in SeqsUpTo({"a.com", "b.org"}, MaxDomains)}),
        rec \in Opt("search_recency_filter", {PyNone, PyStr("week")}),
        rc \in Opt("return_citations", {PyBool(FALSE)}),
        img \in Opt("return_images", {PyBool(TRUE)}),
        fp \in Opt("frequency_penalty", {PyInt(0)})}

Questions == {PyStr("what is tla"), PyStr("why")}

\* The remote's answers.
NetOk(b) == [kind |-> "ok", status |-> 200, text |-> "", body |-> b,
             jsonErrorIsRequestException |-> TRUE]
NetHttpError(code, txt) == [kind |-> "http_error", status |-> code, text |-> txt,
                            body |-> PyNone, jsonErrorIsRequestException |-> TRUE]
NetNoResponse(k) == [kind |-> k, status |-> 0, text |-> "", body |-> PyNone,
                     jsonErrorIsRequestException |-> TRUE]
NetBadJson(isReq) == [kind |-> "bad_json", status |-> 200, text |-> "<html>", body |-> PyNone,
                      jsonErrorIsRequestException |-> isReq]

Failures ==
    {NetHttpError(401, "unauthorized"), NetHttpError(500, ""),
     NetNoResponse("conn_error"), NetNoResponse("timeout"),
     NetBadJson(TRUE), NetBadJson(FALSE)}

\* {"choices": [{"message": {"content": c}}]}
Choices(c) == PyList(<<PyDict(<<KV("message", PyDict(<<KV("content", c)>>))>>)>>)
Hello == KV("choices", Choices(PyStr("hello")))

CiteOptions ==
    {<<>>} \cup {<<KV("citations", TextList(c))>> : c \in SeqsUpTo({"a", "b"}, MaxCitations)}
RelatedOptions ==
    {<<>>} \cup {<<KV("related_questions", TextList(q))>> :
                    q \in SeqsUpTo({"why", "how"}, MaxRelated)}

\* Bodies of the documented shape.
GoodBodies == {PyDict(<<Hello>> \o c \o r) : c \in CiteOptions, r \in RelatedOptions}

\* Bodies that carry a top-level "error" key.
ErrorKeyBodies ==
    {PyDict(<<KV("error", PyStr("quota"))>>),
     PyDict(<<KV("error", PyNone)>>),
     PyDict(<<Hello, KV("error", PyStr("quota"))>>),
     PyDict(<<Hello, KV("citations", TextList(<<"a">>)), KV("error", PyNone)>>)}

\* Objects without a usable choices[0].message.content.
ShapelessBodies ==
    {PyDict(<<>>),
     PyDict(<<KV("citations", TextList(<<"a">>))>>),
     PyDict(<<KV("choices", PyList(<<>>))>>),
     PyDict(<<KV("choices", PyList(<<PyDict(<<>>)>>))>>),
     PyDict(<<KV("choices", PyList(<<PyDict(<<KV("message", PyDict(<<>>))>>)>>))>>),
     PyDict(<<KV("choices", PyDict(<<>>))>>),
     PyDict(<<KV("choices", PyStr(""))>>)}

\* Decoded bodies whose parts have another JSON type.
OddBodies ==
    {PyNone, PyInt(5), PyStr("ok"), PyStr("error"), PyStr("fatal error"),
     PyList(<<>>), PyList(<<PyStr("error")>>),
     PyDict(<<KV("choices", PyNone)>>),
     PyDict(<<KV("choices", PyInt(5))>>),
     PyDict(<<KV("choices", PyStr("ab"))>>),
     PyDict(<<KV("choices", PyList(<<PyNone>>))>>),
     PyDict(<<KV("choices", PyList(<<PyDict(<<KV("message", PyNone)>>)>>))>>),
     PyDict(<<KV("choices", Choices(PyNone))>>),
     PyDict(<<KV("choices", Choices(PyInt(7)))>>),
     PyDict(<<Hello, KV("citations", PyNone)>>),
     PyDict(<<Hello, KV("citations", PyInt(5))>>),
     PyDict(<<Hello, KV("citations", PyStr("ab"))>>),
     PyDict(<<Hello, KV("citations", PyList(<<PyInt(1), PyNone>>))>>),
     PyDict(<<Hello, KV("citations", PyDict(<<KV("x", PyInt(1))>>))>>),
     PyDict(<<Hello, KV("related_questions", PyInt(5))>>)}

Bodies == GoodBodies \cup ErrorKeyBodies \cup ShapelessBodies \cup OddBodies

MainNet == Failures \cup {NetOk(b) : b \in Bodies}
AskNet == {NetOk(PyDict(<<Hello>>)), NetHttpError(401, "unauthorized"), NetBadJson(FALSE)}

\* The state of a process that has parsed its arguments.
Start ==
    /\ requests = <<>>
    /\ response = PyNone
    /\ output = ""
    /\ stdout = <<>>
    /\ stderr = <<>>
    /\ file = <<>>
    /\ saveAttempts = 0
    /\ exitCode = -1
    /\ fault = "none"

Init ==
    /\ args \in MainArgs
    /\ net \in MainNet
    /\ fs \in FsOutcomes
    /\ kwargs = PyDict(<<>>)
    /\ pc = "validate"
    /\ Start

\* A caller about to call client.ask.
InitAsk ==
    /\ args \in {ArgsOf(q, PyStr("pplx-key"), PyNone, PyFloat(2), FALSE, FALSE, FALSE,
                        PyNone, PyNone, FALSE, PyNone) : q \in Questions}
    /\ net \in AskNet
    /\ fs = "ok"
    /\ kwargs \in KwargsConfigs
    /\ pc = "call"
    /\ Start

NextAsk == AskDirect

Spec == Init /\ [][Next]_vars

SpecAsk == InitAsk /\ [][NextAsk]_vars

(***************************************************************************)
(* Properties.                                                             *)
(***************************************************************************)
KeyMissing == args.api_key \in {PyNone, PyStr("")}
Finished == pc = "done"
TextMode == ~args.json

\* choices[0].message.content exists in a decoded body.
Locatable(b) ==
    /\ b.t = "dict" /\ HasKey(b, "choices")
    /\ LET ch == Lookup(b, "choices")
       IN /\ ch.t = "list" /\ ch.l # <<>>
          /\ ch.l[1].t = "dict" /\ HasKey(ch.l[1], "message")
          /\ LET m == Lookup(ch.l[1], "message")
             IN m.t = "dict" /\ HasKey(m, "content")

ContentOf(b) == Lookup(Lookup(Lookup(b, "choices").l[1], "message"), "content")

IsTextList(x) == x.t = "list" /\ \A i \in 1..Len(x.l) : x.l[i].t = "str"

\* A body of the documented wire shape: text content, and citations and
\* related_questions absent or sequences of text.
WellTyped(b) ==
    /\ Locatable(b)
    /\ ContentOf(b).t = "str"
    /\ HasKey(b, "citations") => IsTextList(Lookup(b, "citations"))
    /\ HasKey(b, "related_questions") => IsTextList(Lookup(b, "related_questions"))

TextsOf(b, key) == IF HasKey(b, key) THEN Lookup(b, key).l ELSE <<>>

RECURSIVE NumberedFrom(_, _)
NumberedFrom(items, i) ==
    IF items = <<>> THEN ""
    ELSE "\n" \o ToString(i) \o ". " \o items[1].s \o NumberedFrom(Tail(items), i + 1)

RECURSIVE Bulleted(_)
Bulleted(items) ==
    IF items = <<>> THEN ""
    ELSE "\n" \o Bullet \o " " \o items[1].s \o Bulleted(Tail(items))

\* The text the rendering rules prescribe for a well-typed body.
ExpectedText(b, showCitations, showRelated) ==
    ContentOf(b).s
    \o (IF showCitations /\ TextsOf(b, "citations") # <<>>
        THEN "\n\nCitations:" \o NumberedFrom(TextsOf(b, "citations"), 1) ELSE "")
    \o (IF showRelated /\ TextsOf(b, "related_questions") # <<>>
        THEN "\n\nRelated Questions:" \o Bulleted(TextsOf(b, "related_questions")) ELSE "")

\* The run ended in the branch that reports a failed call.
FailureReported ==
    /\ Finished /\ exitCode = 1 /\ fault = "none" /\ stdout = <<>>
    /\ response.t = "dict" /\ HasKey(response, "error")
    /\ stderr = <<"Error: " \o PyFormat(Lookup(response, "error"))>>
                \o (IF HasKey(response, "status_code")
                    THEN <<"Status Code: " \o PyFormat(Lookup(response, "status_code"))>>
                    ELSE <<>>)
                \o (IF HasKey(response, "response_text")
                    THEN <<"Response: " \o PyFormat(Lookup(response, "response_text"))>>
                    ELSE <<>>)

\* C1: a run issues at most one request, and none when the API key is
\* missing or empty: the key check comes first, reports on the error stream
\* and ends the run with exit code 1.
C1_AtMostOneRequest ==
    /\ Len(requests) <= 1
    /\ KeyMissing =>
         /\ requests = <<>>
         /\ pc \in {"validate", "done"}
         /\ Finished => exitCode = 1 /\ Len(stderr) = 2 /\ stdout = <<>> /\ fault = "none"
    /\ (Finished /\ ~KeyMissing) => Len(requests) = 1

C1_Witness ==
    Finished /\ net.kind = "timeout" /\ Len(requests) = 1 /\ exitCode = 1

\* C2: the exit code is 1 exactly when the key is missing, the call failed
\* or text mode could not locate choices[0].message.content, and 0 otherwise.
C2_ExitCode ==
    Finished =>
        (exitCode = 1 <=> (KeyMissing \/ net.kind # "ok"
                           \/ (TextMode /\ ~Locatable(net.body))))

\* C3: every transport failure comes back as a Failure value, no exception
\* escapes, the status code and body text are carried exactly when a
\* response was obtained, and main reports them and exits with 1.
TransportFailure == net.kind \in {"http_error", "conn_error", "timeout"}

RequiredKeys ==
    {"model", "temperature", "top_p", "top_k", "presence_penalty", "frequency_penalty",
     "return_citations", "return_images", "return_related_questions", "stream"}
OptionalKeys == {"max_tokens", "search_domain_filter", "search_recency_filter"}

Given(kw, key) == HasKey(kw, key) /\ Lookup(kw, key) # PyNone

C4_Payload ==
    Len(requests) = 1 =>
        LET p == requests[1]
        IN /\ p.t = "dict"
           /\ \A i, j \in 1..Len(p.o) : p.o[i].k = p.o[j].k => i = j
           /\ \A i \in 1..Len(p.o) :
                /\ p.o[i].k \in RequiredKeys \cup OptionalKeys \cup {"messages"}
                /\ p.o[i].v \notin {PyNone, PyStr(""), PyList(<<>>), PyDict(<<>>)}
           /\ \A key \in RequiredKeys : HasKey(p, key) /\ Lookup(p, key) = Param(kwargs, key)
           /\ DictGet(p, "messages")
                = PyList(<<PyDict(<<KV("role", PyStr("user")),
                                    KV("content", args.question)>>)>>)
           /\ HasKey(p, "max_tokens") <=> Given(kwargs, "max_tokens")
           /\ HasKey(p, "search_recency_filter") <=> Given(kwargs, "search_recency_filter")
           /\ HasKey(p, "search_domain_filter")
                <=> (Given(kwargs, "search_domain_filter")
                     /\ Lookup(kwargs, "search_domain_filter").l # <<>>)
           /\ \A key \in OptionalKeys : HasKey(p, key) => Lookup(p, key) = Lookup(kwargs, key)

\* C4 (amended): as C4, except that only null is excluded for every key;
\* an empty value is excluded for max_tokens, search_domain_filter and
\* search_recency_filter, while model is sent as given, even as empty text.
C4_PayloadAmended ==
    Len(requests) = 1 =>
        LET p == requests[1]
        IN /\ p.t = "dict"
           /\ \A i, j \in 1..Len(p.o) : p.o[i].k = p.o[j].k => i = j
           /\ \A i \in 1..Len(p.o) :
                /\ p.o[i].k \in RequiredKeys \cup OptionalKeys \cup {"messages"}
                /\ p.o[i].v # PyNone
                /\ p.o[i].k \in OptionalKeys \cup {"messages"}
                     => p.o[i].v \notin {PyStr(""), PyList(<<>>), PyDict(<<>>)}
           /\ \A key \in RequiredKeys : HasKey(p, key) /\ Lookup(p, key) = Param(kwargs, key)
           /\ DictGet(p, "messages")
                = PyList(<<PyDict(<<KV("role", PyStr("user")),
                                    KV("content", args.question)>>)>>)
           /\ HasKey(p, "max_tokens") <=> Given(kwargs, "max_tokens")
           /\ HasKey(p, "search_recency_filter") <=> Given(kwargs, "search_recency_filter")
           /\ HasKey(p, "search_domain_filter")
                <=> (Given(kwargs, "search_domain_filter")
                     /\ Lookup(kwargs, "search_domain_filter").l # <<>>)
           /\ \A key \in OptionalKeys : HasKey(p, key) => Lookup(p, key) = Lookup(kwargs, key)

C4_Witness ==
    /\ pc = "returned" /\ Len(requests) = 1
    /\ DictGet(kwargs, "temperature") = PyFloat(0)
    /\ DictGet(kwargs, "max_tokens") = PyInt(0)
    /\ DictGet(kwargs, "frequency_penalty") = PyInt(0)
    /\ DictGet(requests[1], "temperature") = PyFloat(0)
    /\ DictGet(requests[1], "search_domain_filter") = TextList(<<"b.org", "a.com">>)
    /\ ~HasKey(requests[1], "search_recency_filter")

\* C5: a 2xx reply whose body is a JSON object is a Success whatever keys
\* the object has: the run is never reported as a failed call.
C5_SuccessByTransport ==
    (net.kind = "ok" /\ net.body.t = "dict") => ~FailureReported

\* C6: in text mode, for a successful response that has
\* choices[0].message.content, the output is the content, then the numbered
\* "Citations:" section, then the bulleted "Related Questions:" section,
\* each section only when shown and non-empty.
C6_TextRendering ==
    (Finished /\ ~KeyMissing /\ TextMode /\ net.kind = "ok" /\ WellTyped(net.body)) =>
        stdout = <<ExpectedText(net.body, args.citations, args.related_questions)>>

\* C7: in text mode, a successful response without choices, with empty
\* choices, or whose choices[0] lacks message or content, ends as a shape
\* error: a parse-error line and the raw JSON on the error stream, nothing
\* on standard output, no file written, exit code 1.
ShapeMissing(b) ==
    /\ b.t = "dict"
    /\ \/ ~HasKey(b, "choices")
       \/ Lookup(b, "choices") = PyList(<<>>)
       \/ /\ Lookup(b, "choices").t = "list" /\ Lookup(b, "choices").l # <<>>
          /\ Lookup(b, "choices").l[1].t = "dict"
          /\ \/ ~HasKey(Lookup(b, "choices").l[1], "message")
             \/ /\ Lookup(Lookup(b, "choices").l[1], "message").t = "dict"
                /\ ~HasKey(Lookup(Lookup(b, "choices").l[1], "message"), "content")

C7_ShapeError ==
    (Finished /\ ~KeyMissing /\ TextMode /\ net.kind = "ok" /\ ShapeMissing(net.body)) =>
        /\ exitCode = 1 /\ fault = "none"
        /\ stdout = <<>> /\ file = <<>> /\ saveAttempts = 0
        /\ Len(stderr) = 2
        /\ stderr[2] = Dumps(net.body, 0)

\* C8: output is displayed and the save attempted only after a successful
\* call and a successful rendering; the save comes after the display, with
\* the displayed text; a failed save is reported on the error stream and
\* leaves the display, and the exit code 0, as they were.
C8_DisplayThenSave ==
    /\ Len(stdout) <= 1 /\ saveAttempts <= 1
    /\ stdout # <<>> =>
         /\ ~KeyMissing /\ net.kind = "ok" /\ fault = "none"
         /\ args.json \/ Locatable(net.body)
         /\ stdout = <<output>>
    /\ saveAttempts > 0 =>
         /\ args.save # PyNone /\ stdout = <<output>>
         /\ Finished /\ exitCode = 0 /\ fault = "none"
         /\ fs = "ok" => file = stdout
         /\ fs # "ok" => stderr # <<>> /\ file \in {<<>>, <<"">>}
    /\ saveAttempts = 0 => file = <<>>
    /\ (Finished /\ stdout # <<>>) =>
         /\ exitCode = 0
         /\ saveAttempts = (IF args.save = PyNone THEN 0 ELSE 1)

C8_Witness ==
    /\ Finished /\ saveAttempts = 1 /\ fs = "write_fails" /\ exitCode = 0
    /\ stdout = <<"hello\n\nCitations:\n1. a\n2. b">>
    /\ stderr = <<"Error saving file: No space left on device">>

\* C9: no run ends in a raw internal fault: whatever JSON value a successful
\* call decoded, the run ends with output and exit 0 or with a reported
\* error and exit 1.
C9_NoRawFault ==
    (net.kind = "ok" /\ Finished) =>
        /\ fault = "none"
        /\ \/ exitCode = 0 /\ stdout # <<>>
           \/ exitCode = 1 /\ stderr # <<>> /\ stdout = <<>>

\* C10: --no-citations turns citations off in the request and in the text
\* output; without it return_citations is true and a non-empty citations
\* sequence is shown.
C10_NoCitations ==
    /\ Len(requests) = 1 =>
         DictGet(requests[1], "return_citations") = PyBool(~args.no_citations)
    /\ (Finished /\ TextMode /\ stdout # <<>> /\ WellTyped(net.body)) =>
         stdout = <<ExpectedText(net.body, ~args.no_citations, args.related_questions)>>

====
